---- MODULE Spec2Model ----
(***************************************************************************)
(* Weather analytics API: the ingestion service (weather_service.py), the  *)
(* analytics engine (analytics_service.py), the validators (validation.py) *)
(* and the HTTP handlers (routers/weather.py, routers/analytics.py) over a *)
(* store of City and WeatherRecord rows.                                   *)
(*                                                                         *)
(* Conventions.  A string is a sequence of character codes (ASCII), so     *)
(* that trimming, length and character-class tests are computed.  An       *)
(* Optional value is a sequence of length 0 (None) or 1.  A temperature    *)
(* is an integer number of thousandths of a degree; a timestamp is an      *)
(* integer number of clock units, DayLen of which make a calendar day.     *)
(***************************************************************************)
EXTENDS Integers, Sequences, FiniteSets, TLC

VARIABLES
    api_key,    \* config.OPENWEATHER_API_KEY is set (read once at import)
    cities,     \* table "cities": sequence of rows, in insertion (id) order
    records,    \* table "weather_records": sequence of rows, insertion order
    now,        \* the wall clock read by datetime.utcnow()
    pc,         \* per worker thread: position inside GET /weather/current
    data,       \* per worker: the payload fetch_weather_from_api returned
    found,      \* per worker: result of the query in get_or_create_city
    calls,      \* number of fetch_and_save_weather calls started
    okCalls,    \* number of fetch_and_save_weather calls that returned
    sent,       \* per worker: provider requests issued by the call in progress
    resp        \* the response produced by the last step (NoResp if none)

vars == <<api_key, cities, records, now, pc, data, found, calls, okCalls, sent, resp>>
store == <<cities, records>>

----------------------------------------------------------------------------
(* Bounds of the model *)

MaxCalls == 2
MaxTime == 3
MaxRecords == 3

Workers == {1, 2}

----------------------------------------------------------------------------
(* Optional values *)

None == <<>>
Some(v) == <<v>>
IsNone(o) == Len(o) = 0
Val(o) == o[1]

(* Strings as sequences of character codes *)
Pa == <<80, 97>>             \* "Pa"
Ro == <<82, 111>>            \* "Ro"
Xx == <<88, 120>>            \* "Xx", a well-formed name no provider knows
PaLower == <<112, 97>>       \* "pa"
PaPadded == <<32, 80, 97>>   \* " Pa"
Digit == <<80, 49>>          \* "P1"
OneChar == <<32, 97, 32>>    \* " a "
Empty == <<>>                \* ""

----------------------------------------------------------------------------
(* Exceptions: the class hierarchy that the except clauses test *)

ExcParent(cls) ==
    CASE cls = "ValidationError" -> "WeatherAPIError"
      [] cls = "CityNotFoundError" -> "WeatherAPIError"
      [] cls = "WeatherDataNotFoundError" -> "WeatherAPIError"
      [] cls = "ExternalAPIError" -> "WeatherAPIError"
      [] cls = "Timeout" -> "RequestException"
      [] cls = "ConnectionError" -> "RequestException"
      [] cls = "HTTPError" -> "RequestException"
      [] cls = "JSONDecodeError" -> "RequestException"
      [] OTHER -> "Exception"

RECURSIVE IsInstance(_, _)
IsInstance(exc, cls) ==
    IF exc = cls THEN TRUE
    ELSE IF exc = "Exception" THEN FALSE
    ELSE IsInstance(ExcParent(exc), cls)

Ok(v) == [ok |-> TRUE, val |-> v, exc |-> "none"]
Raise(e) == [ok |-> FALSE, val |-> None, exc |-> e]

----------------------------------------------------------------------------
(* utils/validation.py.  Every validator raises the builtin ValueError. *)

IsSpace(c) == c \in {9, 10, 11, 12, 13, 28, 29, 30, 31, 32}
IsAsciiLetter(c) == (c >= 65 /\ c <= 90) \/ (c >= 97 /\ c <= 122)

RECURSIVE LStrip(_)
LStrip(s) == IF s # <<>> /\ IsSpace(Head(s)) THEN LStrip(Tail(s)) ELSE s

RECURSIVE RStrip(_)
RStrip(s) ==
    IF s # <<>> /\ IsSpace(s[Len(s)]) THEN RStrip(SubSeq(s, 1, Len(s) - 1)) ELSE s

Strip(s) == RStrip(LStrip(s))

\* re.match(r"^[a-zA-Z\s\-']+$", city): 45 is '-', 39 is the apostrophe
CityCharOk(c) == IsAsciiLetter(c) \/ IsSpace(c) \/ c = 45 \/ c = 39

\* the length test written with >= : a name of 100 characters is refused
validate_city_nameShort(city) ==
    IF city = <<>> THEN Raise("ValueError")
    ELSE LET stripped == Strip(city) IN
         IF Len(stripped) < 2 THEN Raise("ValueError")
         ELSE IF Len(stripped) >= 100 THEN Raise("ValueError")
         ELSE IF \E i \in 1..Len(stripped) : ~CityCharOk(stripped[i])
              THEN Raise("ValueError")
         ELSE Ok(stripped)

validate_city_name(city) ==
    IF city = <<>> THEN Raise("ValueError")
    ELSE LET stripped == Strip(city) IN
         IF Len(stripped) < 2 THEN Raise("ValueError")
         ELSE IF Len(stripped) > 100 THEN Raise("ValueError")
         ELSE IF \E i \in 1..Len(stripped) : ~CityCharOk(stripped[i])
              THEN Raise("ValueError")
         ELSE Ok(stripped)

\* the upper bound taken exclusively
validate_daysExclusiveMax(days, min_days, max_days) ==
    IF IsNone(days) THEN Ok(None)
    ELSE IF Val(days) < min_days THEN Raise("ValueError")
    ELSE IF Val(days) >= max_days THEN Raise("ValueError")
    ELSE Ok(days)

\* days is Optional[int]; the isinstance test cannot fail for a parsed int
validate_days(days, min_days, max_days) ==
    IF IsNone(days) THEN Ok(None)
    ELSE IF Val(days) < min_days THEN Raise("ValueError")
    ELSE IF Val(days) > max_days THEN Raise("ValueError")
    ELSE Ok(days)

\* weeks is an int or None; None fails the isinstance test
validate_weeks(weeks, min_weeks, max_weeks) ==
    IF IsNone(weeks) THEN Raise("ValueError")
    ELSE IF Val(weeks) < min_weeks THEN Raise("ValueError")
    ELSE IF Val(weeks) > max_weeks THEN Raise("ValueError")
    ELSE Ok(Val(weeks))

\* months is an int or None; None fails the isinstance test
validate_months(months, min_months, max_months) ==
    IF IsNone(months) THEN Raise("ValueError")
    ELSE IF Val(months) < min_months THEN Raise("ValueError")
    ELSE IF Val(months) > max_months THEN Raise("ValueError")
    ELSE Ok(Val(months))

----------------------------------------------------------------------------
(* The boundary: a handler's except clauses turn an exception into the   *)
(* status of the HTTPException it raises; the first matching clause wins *)

RECURSIVE StatusOf(_, _)
StatusOf(exc, clauses) ==
    IF clauses = <<>> THEN 0
    ELSE IF IsInstance(exc, Head(clauses)[1]) THEN Head(clauses)[2]
    ELSE StatusOf(exc, Tail(clauses))

\* get_current_weather
CurrentClauses ==
    << <<"ValidationError", 400>>, <<"ExternalAPIError", 503>>, <<"Exception", 500>> >>

\* the clauses without the one for WeatherDataNotFoundError
NotFoundClausesCityOnly ==
    << <<"ValidationError", 400>>, <<"CityNotFoundError", 404>>, <<"Exception", 500>> >>

\* get_latest_weather, get_trend, get_patterns, export_historical
NotFoundClauses ==
    << <<"ValidationError", 400>>, <<"CityNotFoundError", 404>>,
       <<"WeatherDataNotFoundError", 404>>, <<"Exception", 500>> >>

\* get_daily_average, get_weekly_average, get_monthly_average, compare_cities_endpoint
CityClauses ==
    << <<"ValidationError", 400>>, <<"CityNotFoundError", 404>>, <<"Exception", 500>> >>

\* list_cities
ListClauses == << <<"Exception", 500>> >>

----------------------------------------------------------------------------
(* Dates.  Day 0 of the clock is Monday 2026-01-05, 00:00:00 UTC. *)

DayLen == 2

IsDigit(c) == c >= 48 /\ c <= 57
DigitVal(c) == c - 48
TwoDigits(n) == <<48 + ((n \div 10) % 10), 48 + (n % 10)>>
FourDigits(n) ==
    <<48 + ((n \div 1000) % 10), 48 + ((n \div 100) % 10)>> \o TwoDigits(n)

IsLeap(y) == (y % 4 = 0 /\ y % 100 # 0) \/ y % 400 = 0
DaysInMonth(y, m) ==
    IF m = 2 THEN (IF IsLeap(y) THEN 29 ELSE 28)
    ELSE IF m \in {4, 6, 9, 11} THEN 30 ELSE 31

\* days from 1970-01-01 to y-m-d in the proleptic Gregorian calendar
DaysFromCivil(y, m, d) ==
    LET yy == IF m <= 2 THEN y - 1 ELSE y
        era == yy \div 400
        yoe == yy - era * 400
        mp == IF m > 2 THEN m - 3 ELSE m + 9
        doy == (153 * mp + 2) \div 5 + d - 1
        doe == yoe * 365 + yoe \div 4 - yoe \div 100 + doy
    IN era * 146097 + doe - 719468

EpochDays == DaysFromCivil(2026, 1, 5)

\* the calendar date of clock day n, for the days of January 2026 from the epoch on
CivilOfDay(n) == [y |-> 2026, m |-> 1, d |-> 5 + n]

\* func.date(recorded_at): the calendar day of a timestamp
DateOf(t) == t \div DayLen

\* str(date), strftime("%Y-%m-%d")
FormatDate(n) ==
    LET c == CivilOfDay(n) IN
    FourDigits(c.y) \o <<45>> \o TwoDigits(c.m) \o <<45>> \o TwoDigits(c.d)

\* strftime("%Y-%m"), applied to the start of the month
FormatMonth(n) ==
    LET c == CivilOfDay(n) IN FourDigits(c.y) \o <<45>> \o TwoDigits(c.m)

\* strftime("%Y-%m-%d %H:%M:%S")
FormatDateTime(t) ==
    LET secs == ((t % DayLen) * 86400) \div DayLen IN
    FormatDate(DateOf(t)) \o <<32>> \o TwoDigits(secs \div 3600) \o <<58>>
        \o TwoDigits((secs \div 60) % 60) \o <<58>> \o TwoDigits(secs % 60)

\* date_trunc('week', recorded_at): the Monday of the ISO week, as a clock day
WeekStart(t) == DateOf(t) - (DateOf(t) % 7)

\* date_trunc('month', recorded_at): the first of the month, as a clock day
MonthStart(t) == DateOf(t) - (CivilOfDay(DateOf(t)).d - 1)

\* lexicographic order of strings
RECURSIVE StrLess(_, _)
StrLess(a, b) ==
    IF b = <<>> THEN FALSE
    ELSE IF a = <<>> THEN TRUE
    ELSE IF Head(a) # Head(b) THEN Head(a) < Head(b)
    ELSE StrLess(Tail(a), Tail(b))

\* the fields of a date string: digits separated by '-' (45)
RECURSIVE SplitDash(_, _, _)
SplitDash(s, cur, acc) ==
    IF s = <<>> THEN Append(acc, cur)
    ELSE IF Head(s) = 45 THEN SplitDash(Tail(s), <<>>, Append(acc, cur))
    ELSE SplitDash(Tail(s), Append(cur, Head(s)), acc)

RECURSIVE Number(_, _)
Number(ds, acc) ==
    IF ds = <<>> THEN acc ELSE Number(Tail(ds), acc * 10 + DigitVal(Head(ds)))

AllDigits(ds) == \A i \in 1..Len(ds) : IsDigit(ds[i])

\* datetime.strptime(date_str, "%Y-%m-%d"): midnight of the day, as a timestamp
StrpTime(s) ==
    LET f == SplitDash(s, <<>>, <<>>) IN
    IF Len(f) # 3 THEN Raise("ValueError")
    ELSE IF ~(Len(f[1]) = 4 /\ Len(f[2]) \in {1, 2} /\ Len(f[3]) \in {1, 2})
         THEN Raise("ValueError")
    ELSE IF ~(AllDigits(f[1]) /\ AllDigits(f[2]) /\ AllDigits(f[3]))
         THEN Raise("ValueError")
    ELSE LET y == Number(f[1], 0)
             m == Number(f[2], 0)
             d == Number(f[3], 0)
         IN IF y < 1 \/ m < 1 \/ m > 12 \/ d < 1 \/ d > DaysInMonth(y, m)
            THEN Raise("ValueError")
            ELSE Ok((DaysFromCivil(y, m, d) - EpochDays) * DayLen)

validate_date_format(date_str) ==
    IF date_str = <<>> THEN Raise("ValueError")
    ELSE StrpTime(date_str)

----------------------------------------------------------------------------
(* The weather provider: what requests.get(url, params, timeout=10) can do *)

\* a JSON body: name (<<>> when absent or empty), coord.lat/lon present,
\* "main" and "weather" keys present, the weather list, the observation
Payload(name, has_coord, has_main, has_weather, weather, temp, humidity, pressure) ==
    [name |-> name, has_coord |-> has_coord, has_main |-> has_main,
     has_weather |-> has_weather, weather |-> weather,
     temp |-> temp, humidity |-> humidity, pressure |-> pressure]

Observation(name, temp) == Payload(name, TRUE, TRUE, TRUE, <<"Clear">>, temp, 40, 1000)

IngestNames == {Pa, Ro}
IngestTemps == {1001}

OkPayloads == {Observation(n, t) : n \in IngestNames, t \in IngestTemps}

NoMainPayload == Payload(Pa, TRUE, FALSE, TRUE, <<"Clear">>, 0, 40, 1000)
NoWeatherPayload == Payload(Pa, TRUE, TRUE, FALSE, <<>>, 0, 40, 1000)
NoNamePayload == Payload(<<>>, TRUE, TRUE, TRUE, <<"Clear">>, 0, 40, 1000)
NoCoordPayload == Payload(Pa, FALSE, TRUE, TRUE, <<"Clear">>, 0, 40, 1000)
EmptyWeatherPayload == Payload(Pa, TRUE, TRUE, TRUE, <<>>, 0, 40, 1000)

BadPayloads ==
    {NoMainPayload, NoWeatherPayload, NoNamePayload, NoCoordPayload, EmptyWeatherPayload}

\* kind: the request timed out, could not connect, or got an HTTP answer
\* with this status; json: the body parses as JSON
HttpAnswer(status, json, body) ==
    [kind |-> "http", status |-> status, json |-> json, body |-> body]

ProviderAnswers ==
    {[kind |-> k, status |-> 0, json |-> FALSE, body |-> NoMainPayload] :
        k \in {"timeout", "connection"}}
    \cup {HttpAnswer(st, FALSE, NoMainPayload) : st \in {401, 404, 500}}
    \cup {HttpAnswer(200, FALSE, NoMainPayload)}
    \cup {HttpAnswer(200, TRUE, b) : b \in OkPayloads \cup BadPayloads}

----------------------------------------------------------------------------
(* services/weather_service.py *)

\* the body of the try block of fetch_weather_from_api
FetchTry(r) ==
    IF r.kind = "timeout" THEN Raise("Timeout")
    ELSE IF r.kind = "connection" THEN Raise("ConnectionError")
    ELSE IF r.status = 404 THEN Raise("ValidationError")
    ELSE IF r.status = 401 THEN Raise("ExternalAPIError")
    ELSE IF r.status >= 400 THEN Raise("HTTPError")          \* raise_for_status()
    ELSE IF ~r.json THEN Raise("JSONDecodeError")            \* response.json()
    ELSE IF ~r.body.has_main \/ ~r.body.has_weather THEN Raise("ExternalAPIError")
    ELSE Ok(r.body)

\* the except clauses of fetch_weather_from_api, in order
FetchExcept(exc) ==
    IF IsInstance(exc, "Timeout") THEN "ExternalAPIError"
    ELSE IF IsInstance(exc, "ConnectionError") THEN "ExternalAPIError"
    ELSE IF IsInstance(exc, "ValidationError") THEN "ValidationError"
    ELSE IF IsInstance(exc, "RequestException") THEN "ExternalAPIError"
    ELSE exc

fetch_weather_from_api(key, r) ==
    IF ~key THEN Raise("ExternalAPIError")
    ELSE LET t == FetchTry(r) IN
         IF t.ok THEN t ELSE Raise(FetchExcept(t.exc))

\* without the final "except Exception" clause
FetchAndSaveExceptNoCatchAll(exc) == exc

\* the except clauses of fetch_and_save_weather, in order
FetchAndSaveExcept(exc) ==
    IF IsInstance(exc, "ExternalAPIError") \/ IsInstance(exc, "ValidationError")
    THEN exc
    ELSE "ExternalAPIError"

\* fetch_and_save_weather, steps 1 and 2: fetch, extract, validate
FetchAndExtract(key, r) ==
    LET f == fetch_weather_from_api(key, r) IN
    IF ~f.ok THEN Raise(FetchAndSaveExcept(f.exc))
    ELSE IF f.val.name = <<>> \/ ~f.val.has_coord
         THEN Raise(FetchAndSaveExcept("ExternalAPIError"))
    ELSE f

\* the filter tests a column that never equals the name: every lookup is empty
CitiesNamedNoMatch(rows, city_name) == {}

\* db.query(City).filter(City.name == city_name)
CitiesNamed(rows, city_name) ==
    {i \in 1..Len(rows) : rows[i].name = city_name}

CityRow(id, name) == [id |-> id, name |-> name]

\* WeatherRecord(...) of save_weather_record
RecordRow(id, city_id, payload, at) ==
    [id |-> id, city_id |-> city_id, temperature |-> payload.temp,
     humidity |-> payload.humidity, pressure |-> payload.pressure,
     weather_main |-> payload.weather[1], recorded_at |-> at]

\* an upsert: the city's latest row is overwritten instead of a row being added
InsertRecordUpsert(db, row) ==
    IF \E i \in 1..Len(db) : db[i].city_id = row.city_id
    THEN LET k == CHOOSE i \in 1..Len(db) :
                     /\ db[i].city_id = row.city_id
                     /\ \A j \in 1..Len(db) : db[j].city_id = row.city_id => j <= i
         IN [db EXCEPT ![k] = [row EXCEPT !.id = k]]
    ELSE Append(db, row)

\* db.add(weather_record); db.commit(); db.refresh(weather_record)
InsertRecord(db, row) == Append(db, row)

\* save_weather_record up to the construction of the row: weather[0]
SaveTry(payload) ==
    IF payload.weather = <<>> THEN Raise(FetchAndSaveExcept("IndexError"))
    ELSE Ok(payload)

----------------------------------------------------------------------------
(* Arithmetic of the aggregates.  Averages are exact rationals p/q; the  *)
(* floating-point error of the Python and SQL evaluation is not modelled *)

RECURSIVE Sum(_)
Sum(s) == IF s = <<>> THEN 0 ELSE Head(s) + Sum(Tail(s))

RECURSIVE MinOf(_)
MinOf(s) ==
    IF Len(s) = 1 THEN s[1]
    ELSE LET m == MinOf(Tail(s)) IN IF Head(s) < m THEN Head(s) ELSE m

RECURSIVE MaxOf(_)
MaxOf(s) ==
    IF Len(s) = 1 THEN s[1]
    ELSE LET m == MaxOf(Tail(s)) IN IF Head(s) > m THEN Head(s) ELSE m

\* p/q (q > 0) rounded to the nearest integer, ties to the even one: round()
RoundDiv(p, q) ==
    LET f == p \div q
        r == p - f * q
    IN IF 2 * r < q THEN f
       ELSE IF 2 * r > q THEN f + 1
       ELSE IF f % 2 = 0 THEN f ELSE f + 1

\* round(x, 2) of x = p/q thousandths of a degree, in hundredths of a degree
RoundTemp(p, q) == RoundDiv(p, q * 10)

\* round(x, 2) of x = p/q for integer columns (humidity, pressure), in hundredths
RoundInt(p, q) == RoundDiv(p * 100, q)

Map(s, F(_)) == [i \in 1..Len(s) |-> F(s[i])]

\* ORDER BY recorded_at: rows of equal timestamp keep their insertion order
RECURSIVE InsertByTime(_, _)
InsertByTime(sorted, r) ==
    IF sorted = <<>> THEN <<r>>
    ELSE IF sorted[Len(sorted)].recorded_at <= r.recorded_at THEN Append(sorted, r)
    ELSE Append(InsertByTime(SubSeq(sorted, 1, Len(sorted) - 1), r), sorted[Len(sorted)])

RECURSIVE OrderByRecordedAt(_)
OrderByRecordedAt(rows) ==
    IF rows = <<>> THEN <<>>
    ELSE InsertByTime(OrderByRecordedAt(SubSeq(rows, 1, Len(rows) - 1)), rows[Len(rows)])

Reverse(s) == [i \in 1..Len(s) |-> s[Len(s) + 1 - i]]

\* the distinct values of Key over the rows, descending: GROUP BY .. ORDER BY .. DESC
RECURSIVE Descending(_)
Descending(S) ==
    IF S = {} THEN <<>>
    ELSE LET m == CHOOSE x \in S : \A y \in S : y <= x IN <<m>> \o Descending(S \ {m})

KeysDesc(rows, Key(_)) == Descending({Key(rows[i]) : i \in 1..Len(rows)})

----------------------------------------------------------------------------
(* services/analytics_service.py.  db is the weather_records table and   *)
(* utcnow the value datetime.utcnow() returns during the call            *)

Temperature(r) == r.temperature
RecordedAt(r) == r.recorded_at

\* WeatherRecord.city_id == city_id
OfCity(db, city_id) == SelectSeq(db, LAMBDA r : r.city_id = city_id)

\* "if days:" is false for None and for 0
Truthy(days) == ~IsNone(days) /\ Val(days) # 0

\* the window test written with > : a record exactly days old is left out
DailyWindowStrict(db, city_id, days, utcnow) ==
    IF Truthy(days)
    THEN SelectSeq(OfCity(db, city_id),
                   LAMBDA r : r.recorded_at > utcnow - Val(days) * DayLen)
    ELSE OfCity(db, city_id)

\* an absent days taken as a window of one day
DailyWindowDefault(db, city_id, days, utcnow) ==
    SelectSeq(OfCity(db, city_id),
              LAMBDA r : r.recorded_at >= utcnow - (IF Truthy(days) THEN Val(days) ELSE 1) * DayLen)

DailyWindow(db, city_id, days, utcnow) ==
    IF Truthy(days)
    THEN SelectSeq(OfCity(db, city_id),
                   LAMBDA r : r.recorded_at >= utcnow - Val(days) * DayLen)
    ELSE OfCity(db, city_id)

\* per bucket: avg, min, max of the temperature and count(id)
Bucket(rows, Key(_), k) ==
    LET g == SelectSeq(rows, LAMBDA r : Key(r) = k)
        t == Map(g, Temperature)
    IN [key |-> k, avg |-> RoundTemp(Sum(t), Len(t)), min |-> RoundTemp(MinOf(t), 1),
        max |-> RoundTemp(MaxOf(t), 1), count |-> Len(g)]

GroupDesc(rows, Key(_)) ==
    LET ks == KeysDesc(rows, Key) IN [i \in 1..Len(ks) |-> Bucket(rows, Key, ks[i])]

get_daily_average_temperature(db, city_id, days, utcnow) ==
    LET rows == DailyWindow(db, city_id, days, utcnow)
        g == GroupDesc(rows, LAMBDA r : DateOf(r.recorded_at))
    IN [i \in 1..Len(g) |->
           [date |-> FormatDate(g[i].key), avg_temperature |-> g[i].avg,
            record_count |-> g[i].count]]

TrendThreshold == 500

\* temperatures[:n//2] and temperatures[n//2:]
FirstHalf(t) == SubSeq(t, 1, Len(t) \div 2)
SecondHalf(t) == SubSeq(t, (Len(t) \div 2) + 1, Len(t))

\* second_avg - first_avg as the fraction num/den; an empty half averages 0
TempChange(t) ==
    LET a == FirstHalf(t)
        b == SecondHalf(t)
    IN IF a = <<>> /\ b = <<>> THEN [num |-> 0, den |-> 1]
       ELSE IF a = <<>> THEN [num |-> Sum(b), den |-> Len(b)]
       ELSE IF b = <<>> THEN [num |-> 0 - Sum(a), den |-> Len(a)]
       ELSE [num |-> Sum(b) * Len(a) - Sum(a) * Len(b), den |-> Len(a) * Len(b)]

\* the thresholds taken inclusively
TrendDirectionInclusive(c) ==
    IF c.num >= TrendThreshold * c.den THEN "increasing"
    ELSE IF c.num <= (0 - TrendThreshold) * c.den THEN "decreasing"
    ELSE "stable"

TrendDirection(c) ==
    IF c.num > TrendThreshold * c.den THEN "increasing"
    ELSE IF c.num < (0 - TrendThreshold) * c.den THEN "decreasing"
    ELSE "stable"

TrendWindow(db, city_id, days, utcnow) ==
    OrderByRecordedAt(
        SelectSeq(OfCity(db, city_id),
                  LAMBDA r : /\ r.recorded_at >= utcnow - days * DayLen
                             /\ r.recorded_at <= utcnow))

\* None when the window holds no record
get_weather_trend(db, city_id, days, utcnow) ==
    LET rows == TrendWindow(db, city_id, days, utcnow)
        t == Map(rows, Temperature)
        c == TempChange(t)
    IN IF rows = <<>> THEN None
       ELSE Some([avg_temperature |-> RoundTemp(Sum(t), Len(t)),
                  min_temperature |-> RoundTemp(MinOf(t), 1),
                  max_temperature |-> RoundTemp(MaxOf(t), 1),
                  temperature_change |-> RoundTemp(c.num, c.den),
                  trend_direction |-> TrendDirection(c),
                  record_count |-> Len(rows),
                  daily_data |->
                      [i \in 1..Len(rows) |->
                          [date |-> FormatDate(DateOf(rows[i].recorded_at)),
                           temperature |-> rows[i].temperature,
                           humidity |-> rows[i].humidity,
                           pressure |-> rows[i].pressure]]])

\* average (hundredths), min, max of a list of integers; zeros when it is empty
IntStats(v) ==
    IF v = <<>> THEN [average |-> 0, min |-> 0, max |-> 0]
    ELSE [average |-> RoundInt(Sum(v), Len(v)), min |-> MinOf(v), max |-> MaxOf(v)]

\* the same for temperatures, each rounded to hundredths of a degree
TempStats(v) ==
    IF v = <<>> THEN [average |-> 0, min |-> 0, max |-> 0]
    ELSE [average |-> RoundTemp(Sum(v), Len(v)), min |-> RoundTemp(MinOf(v), 1),
          max |-> RoundTemp(MaxOf(v), 1)]

\* the humidities without the filter on falsy values
HumiditiesUnfiltered(rows) == Map(rows, LAMBDA r : r.humidity)

Humidities(rows) == Map(SelectSeq(rows, LAMBDA r : r.humidity # 0), LAMBDA r : r.humidity)
Pressures(rows) == Map(SelectSeq(rows, LAMBDA r : r.pressure # 0), LAMBDA r : r.pressure)

\* condition_counts: label -> occurrences, over the rows with a non-empty label
ConditionCounts(rows) ==
    LET labelled == SelectSeq(rows, LAMBDA r : r.weather_main # "") IN
    [l \in {labelled[i].weather_main : i \in 1..Len(labelled)} |->
        Cardinality({i \in 1..Len(labelled) : labelled[i].weather_main = l})]

get_humidity_pressure_patterns(db, city_id) ==
    LET rows == OfCity(db, city_id) IN
    IF rows = <<>> THEN None
    ELSE Some([humidity |-> IntStats(Humidities(rows)),
               pressure |-> IntStats(Pressures(rows)),
               weather_conditions |-> ConditionCounts(rows),
               total_records |-> Len(rows)])

BucketWindow(db, city_id, start) ==
    SelectSeq(OfCity(db, city_id), LAMBDA r : r.recorded_at >= start)

get_weekly_average_temperature(db, city_id, weeks, utcnow) ==
    LET rows == BucketWindow(db, city_id, utcnow - weeks * 7 * DayLen)
        g == GroupDesc(rows, LAMBDA r : WeekStart(r.recorded_at))
    IN [i \in 1..Len(g) |->
           [week_start |-> FormatDate(g[i].key), avg_temperature |-> g[i].avg,
            min_temperature |-> g[i].min, max_temperature |-> g[i].max,
            record_count |-> g[i].count]]

get_monthly_average_temperature(db, city_id, months, utcnow) ==
    LET rows == BucketWindow(db, city_id, utcnow - months * 30 * DayLen)
        g == GroupDesc(rows, LAMBDA r : MonthStart(r.recorded_at))
    IN [i \in 1..Len(g) |->
           [month_start |-> FormatMonth(g[i].key), avg_temperature |-> g[i].avg,
            min_temperature |-> g[i].min, max_temperature |-> g[i].max,
            record_count |-> g[i].count]]

\* the entry of compare_cities for one city row and its records; the query has
\* no ORDER BY, so records[-1] is whichever row the storage returned last
CompareEntry(city, rows, last) ==
    [city_id |-> city.id,
     temperature |->
         TempStats(Map(SelectSeq(rows, LAMBDA r : r.temperature # 0), Temperature)),
     humidity |-> IntStats(Humidities(rows)),
     pressure |-> IntStats(Pressures(rows)),
     total_records |-> Len(rows),
     latest_record |-> FormatDateTime(rows[last].recorded_at)]

\* for each city id, the position among the city's records of the row that an
\* unordered query returns last (1 for a city without records)
LastChoices(city_rows, db) ==
    {f \in [{city_rows[i].id : i \in 1..Len(city_rows)} -> 1..(Len(db) + 1)] :
        \A c \in DOMAIN f :
            IF OfCity(db, c) = <<>> THEN f[c] = 1 ELSE f[c] <= Len(OfCity(db, c))}

RECURSIVE CompareLoop(_, _, _, _, _)
CompareLoop(city_rows, db, city_names, acc, last) ==
    IF city_names = <<>> THEN acc
    ELSE LET name == Head(city_names)
             m == {i \in 1..Len(city_rows) : city_rows[i].name = name}
             first == IF m = {} THEN 0 ELSE CHOOSE i \in m : \A j \in m : i <= j
             rows == IF first = 0 THEN <<>> ELSE OfCity(db, city_rows[first].id)
         IN IF rows = <<>>
            THEN CompareLoop(city_rows, db, Tail(city_names), acc, last)
            ELSE CompareLoop(city_rows, db, Tail(city_names),
                     [n \in (DOMAIN acc) \cup {name} |->
                         IF n = name
                         THEN CompareEntry(city_rows[first], rows, last[city_rows[first].id])
                         ELSE acc[n]],
                     last)

\* a return inside the loop: only the first name is looked at
compare_citiesFirstOnly(city_rows, db, city_names, last) ==
    CompareLoop(city_rows, db, <<Head(city_names)>>, [n \in {} |-> 0], last)

compare_cities(city_rows, db, city_names, last) ==
    CompareLoop(city_rows, db, city_names, [n \in {} |-> 0], last)

\* the end bound taken exclusively
export_historical_dataExclusiveEnd(db, city_id, start_date, end_date) ==
    LET rows == OrderByRecordedAt(
            SelectSeq(OfCity(db, city_id),
                LAMBDA r : /\ (IsNone(start_date) \/ r.recorded_at >= Val(start_date))
                           /\ (IsNone(end_date) \/ r.recorded_at < Val(end_date))))
    IN [i \in 1..Len(rows) |->
           [id |-> rows[i].id, recorded_at |-> FormatDateTime(rows[i].recorded_at),
            temperature |-> rows[i].temperature, humidity |-> rows[i].humidity,
            pressure |-> rows[i].pressure, weather_main |-> rows[i].weather_main]]

\* start_date and end_date are Optional timestamps
export_historical_data(db, city_id, start_date, end_date) ==
    LET rows == OrderByRecordedAt(
            SelectSeq(OfCity(db, city_id),
                LAMBDA r : /\ (IsNone(start_date) \/ r.recorded_at >= Val(start_date))
                           /\ (IsNone(end_date) \/ r.recorded_at <= Val(end_date))))
    IN [i \in 1..Len(rows) |->
           [id |-> rows[i].id, recorded_at |-> FormatDateTime(rows[i].recorded_at),
            temperature |-> rows[i].temperature, humidity |-> rows[i].humidity,
            pressure |-> rows[i].pressure, weather_main |-> rows[i].weather_main]]

----------------------------------------------------------------------------
(* Responses.  args: the parameters of the request as the client sent   *)
(* them; exc: the exception that reached the handler's except clauses    *)
(* ("none" for a success); status: the HTTP status                       *)

NoResp == [op |-> "none", args |-> <<>>, status |-> 0, exc |-> "none", body |-> <<>>]

Success(op, body) ==
    [op |-> op, args |-> <<>>, status |-> 200, exc |-> "none", body |-> body]

Failure(op, exc, clauses) ==
    [op |-> op, args |-> <<>>, status |-> StatusOf(exc, clauses), exc |-> exc,
     body |-> <<>>]

\* the failure of a validator call: its exception propagates as raised
Rejected(op, v, clauses) == Failure(op, v.exc, clauses)

\* the response r to the request with parameters args
Answer(r, args) == [r EXCEPT !.args = args]

NoPayload == NoMainPayload
IdleData == [req |-> <<>>, payload |-> NoPayload]

----------------------------------------------------------------------------
(* routers/weather.py and routers/analytics.py: the read handlers.  Each   *)
(* gives the set of responses the request can get: .first() of an          *)
(* unordered query returns any of the matching rows                        *)

DaysMin == 1
DaysMax == 365
WeeksMin == 1
WeeksMax == 52
MonthsMin == 1
MonthsMax == 24
DefaultTrendDays == 7
DefaultWeeks == 4
DefaultMonths == 12
MaxCompare == 10

OrDefault(o, d) == IF IsNone(o) THEN d ELSE Val(o)

\* the records of the city with the greatest recorded_at:
\* order_by(recorded_at.desc()).first()
LatestOf(rows) ==
    {i \in 1..Len(rows) : \A j \in 1..Len(rows) : rows[j].recorded_at <= rows[i].recorded_at}

get_latest_weather(city_rows, db, city) ==
    LET v == validate_city_name(city) IN
    IF ~v.ok THEN {Rejected("latest", v, NotFoundClauses)}
    ELSE LET m == CitiesNamed(city_rows, v.val) IN
    IF m = {} THEN {Failure("latest", "CityNotFoundError", NotFoundClauses)}
    ELSE UNION {
        LET rows == OfCity(db, city_rows[c].id) IN
        IF rows = <<>>
        THEN {Failure("latest", "WeatherDataNotFoundError", NotFoundClauses)}
        ELSE {Success("latest", rows[i]) : i \in LatestOf(rows)}
        : c \in m}

\* names in ascending order: order_by(City.name)
RECURSIVE SortNames(_)
SortNames(S) ==
    IF S = {} THEN <<>>
    ELSE LET i == CHOOSE x \in S : \A y \in S : ~StrLess(y[2], x[2]) /\ (y[2] = x[2] => x[1] <= y[1])
         IN <<i[2]>> \o SortNames(S \ {i})

list_cities(city_rows) ==
    {Success("cities",
             [total |-> Len(city_rows),
              cities |-> SortNames({<<i, city_rows[i].name>> : i \in 1..Len(city_rows)})])}

get_daily_average(city_rows, db, utcnow, city, days) ==
    LET v == validate_city_name(city)
        d == IF Truthy(days) THEN validate_days(days, DaysMin, DaysMax) ELSE Ok(None)
    IN
    IF ~v.ok THEN {Rejected("daily-average", v, CityClauses)}
    ELSE IF ~d.ok THEN {Rejected("daily-average", d, CityClauses)}
    ELSE LET m == CitiesNamed(city_rows, v.val) IN
    IF m = {} THEN {Failure("daily-average", "CityNotFoundError", CityClauses)}
    ELSE {Success("daily-average",
                  [city |-> city_rows[c].name,
                   daily_averages |->
                       get_daily_average_temperature(db, city_rows[c].id, d.val, utcnow)])
          : c \in m}

get_trend(city_rows, db, utcnow, city, days) ==
    LET v == validate_city_name(city)
        d == validate_days(Some(OrDefault(days, DefaultTrendDays)), DaysMin, DaysMax)
    IN
    IF ~v.ok THEN {Rejected("trend", v, NotFoundClauses)}
    ELSE IF ~d.ok THEN {Rejected("trend", d, NotFoundClauses)}
    ELSE LET m == CitiesNamed(city_rows, v.val) IN
    IF m = {} THEN {Failure("trend", "CityNotFoundError", NotFoundClauses)}
    ELSE {LET t == get_weather_trend(db, city_rows[c].id, Val(d.val), utcnow) IN
          IF IsNone(t) THEN Failure("trend", "WeatherDataNotFoundError", NotFoundClauses)
          ELSE Success("trend",
                       [city |-> city_rows[c].name, period_days |-> Val(d.val),
                        trend |-> Val(t)])
          : c \in m}

get_patterns(city_rows, db, city) ==
    LET v == validate_city_name(city) IN
    IF ~v.ok THEN {Rejected("patterns", v, NotFoundClauses)}
    ELSE LET m == CitiesNamed(city_rows, v.val) IN
    IF m = {} THEN {Failure("patterns", "CityNotFoundError", NotFoundClauses)}
    ELSE {LET t == get_humidity_pressure_patterns(db, city_rows[c].id) IN
          IF IsNone(t)
          THEN Failure("patterns", "WeatherDataNotFoundError", NotFoundClauses)
          ELSE Success("patterns", [city |-> city_rows[c].name, patterns |-> Val(t)])
          : c \in m}

get_weekly_average(city_rows, db, utcnow, city, weeks) ==
    LET v == validate_city_name(city)
        d == validate_weeks(Some(OrDefault(weeks, DefaultWeeks)), WeeksMin, WeeksMax)
    IN
    IF ~v.ok THEN {Rejected("weekly-average", v, CityClauses)}
    ELSE IF ~d.ok THEN {Rejected("weekly-average", d, CityClauses)}
    ELSE LET m == CitiesNamed(city_rows, v.val) IN
    IF m = {} THEN {Failure("weekly-average", "CityNotFoundError", CityClauses)}
    ELSE {Success("weekly-average",
                  [city |-> city_rows[c].name,
                   weekly_averages |->
                       get_weekly_average_temperature(db, city_rows[c].id, d.val, utcnow)])
          : c \in m}

get_monthly_average(city_rows, db, utcnow, city, months) ==
    LET v == validate_city_name(city)
        d == validate_months(Some(OrDefault(months, DefaultMonths)), MonthsMin, MonthsMax)
    IN
    IF ~v.ok THEN {Rejected("monthly-average", v, CityClauses)}
    ELSE IF ~d.ok THEN {Rejected("monthly-average", d, CityClauses)}
    ELSE LET m == CitiesNamed(city_rows, v.val) IN
    IF m = {} THEN {Failure("monthly-average", "CityNotFoundError", CityClauses)}
    ELSE {Success("monthly-average",
                  [city |-> city_rows[c].name,
                   monthly_averages |->
                       get_monthly_average_temperature(db, city_rows[c].id, d.val, utcnow)])
          : c \in m}

\* cities.split(",") (44 is the comma)
RECURSIVE SplitComma(_, _, _)
SplitComma(s, cur, acc) ==
    IF s = <<>> THEN Append(acc, cur)
    ELSE IF Head(s) = 44 THEN SplitComma(Tail(s), <<>>, Append(acc, cur))
    ELSE SplitComma(Tail(s), Append(cur, Head(s)), acc)

\* [city.strip() for city in cities.split(",") if city.strip()]
CityNames(cities_param) ==
    LET parts == SplitComma(cities_param, <<>>, <<>>)
        stripped == [i \in 1..Len(parts) |-> Strip(parts[i])]
    IN SelectSeq(stripped, LAMBDA n : n # <<>>)

compare_cities_endpoint(city_rows, db, cities_param) ==
    IF Strip(cities_param) = <<>>
    THEN {Failure("compare", "ValidationError", CityClauses)}
    ELSE LET city_names == CityNames(cities_param) IN
    IF city_names = <<>> THEN {Failure("compare", "ValidationError", CityClauses)}
    ELSE IF Len(city_names) > MaxCompare
         THEN {Failure("compare", "ValidationError", CityClauses)}
    ELSE IF \E i \in 1..Len(city_names) : ~validate_city_name(city_names[i]).ok
         \* except ValueError as e: raise ValidationError(...)
         THEN {Rejected("compare", Raise("ValidationError"), CityClauses)}
    ELSE LET validated == [i \in 1..Len(city_names) |-> validate_city_name(city_names[i]).val]
         IN {LET comparison == compare_cities(city_rows, db, validated, last) IN
             IF DOMAIN comparison = {}
             THEN Failure("compare", "CityNotFoundError", CityClauses)
             ELSE Success("compare", comparison)
             : last \in LastChoices(city_rows, db)}

\* start_date and end_date are Optional strings; "if start_date:" skips None and ""
DateParam(p) ==
    IF IsNone(p) \/ Val(p) = <<>> THEN Ok(None)
    ELSE LET v == validate_date_format(Val(p)) IN
         IF v.ok THEN Ok(Some(v.val)) ELSE v

export_historical(city_rows, db, city, start_date, end_date) ==
    LET v == validate_city_name(city)
        s == DateParam(start_date)
        e == DateParam(end_date)
    IN
    IF ~v.ok THEN {Rejected("export", v, NotFoundClauses)}
    ELSE IF ~s.ok THEN {Rejected("export", s, NotFoundClauses)}
    ELSE IF ~e.ok THEN {Rejected("export", e, NotFoundClauses)}
    ELSE IF ~IsNone(s.val) /\ ~IsNone(e.val) /\ Val(s.val) > Val(e.val)
         THEN {Failure("export", "ValidationError", NotFoundClauses)}
    ELSE LET m == CitiesNamed(city_rows, v.val) IN
    IF m = {} THEN {Failure("export", "CityNotFoundError", NotFoundClauses)}
    ELSE {LET recs == export_historical_data(db, city_rows[c].id, s.val, e.val) IN
          IF recs = <<>>
          THEN Failure("export", "WeatherDataNotFoundError", NotFoundClauses)
          ELSE Success("export",
                       [city |-> city_rows[c].name, total_records |-> Len(recs),
                        records |-> recs])
          : c \in m}

----------------------------------------------------------------------------
(* GET /weather/current: get_current_weather, one worker thread per request *)

CurrentCities == {Pa, PaLower, PaPadded, Digit, Empty}

\* validate_city_name; on success the call of fetch_and_save_weather starts
GetCurrentWeather(w, city) ==
    /\ resp = NoResp
    /\ pc[w] = "idle"
    /\ calls < MaxCalls
    /\ LET v == validate_city_name(city) IN
       IF v.ok
       THEN /\ pc' = [pc EXCEPT ![w] = "fetch"]
            /\ data' = [data EXCEPT ![w].req = v.val]
            /\ calls' = calls + 1
            /\ resp' = NoResp
       ELSE /\ resp' = Answer(Rejected("current", v, CurrentClauses), [city |-> city])
            /\ UNCHANGED <<pc, data, calls>>
    /\ UNCHANGED <<api_key, cities, records, now, found, okCalls, sent>>

\* a fetch that issues the request again after a timeout
FetchWeatherRetry(w, r) ==
    /\ resp = NoResp
    /\ pc[w] = "fetch"
    /\ LET f == FetchAndExtract(api_key, r)
           n == sent[w] + (IF api_key THEN 1 ELSE 0)
       IN
       IF f.ok
       THEN /\ pc' = [pc EXCEPT ![w] = "query_city"]
            /\ data' = [data EXCEPT ![w].payload = f.val]
            /\ sent' = [sent EXCEPT ![w] = n]
            /\ resp' = NoResp
       ELSE IF api_key /\ r.kind = "timeout" /\ sent[w] = 0
       THEN /\ sent' = [sent EXCEPT ![w] = n]
            /\ resp' = NoResp
            /\ UNCHANGED <<pc, data>>
       ELSE /\ pc' = [pc EXCEPT ![w] = "idle"]
            /\ data' = [data EXCEPT ![w] = IdleData]
            /\ sent' = [sent EXCEPT ![w] = 0]
            /\ resp' = Answer(Failure("current", f.exc, CurrentClauses),
                               [city |-> data[w].req, provider |-> r, requests |-> n])
    /\ UNCHANGED <<api_key, cities, records, now, found, calls, okCalls>>

\* fetch_weather_from_api and the extraction of name and coordinates; the
\* request goes out (requests.get) only when the API key is configured
FetchWeather(w, r) ==
    /\ resp = NoResp
    /\ pc[w] = "fetch"
    /\ LET f == FetchAndExtract(api_key, r)
           n == sent[w] + (IF api_key THEN 1 ELSE 0)
       IN
       IF f.ok
       THEN /\ pc' = [pc EXCEPT ![w] = "query_city"]
            /\ data' = [data EXCEPT ![w].payload = f.val]
            /\ sent' = [sent EXCEPT ![w] = n]
            /\ resp' = NoResp
       ELSE /\ pc' = [pc EXCEPT ![w] = "idle"]
            /\ data' = [data EXCEPT ![w] = IdleData]
            /\ sent' = [sent EXCEPT ![w] = 0]
            /\ resp' = Answer(Failure("current", f.exc, CurrentClauses),
                               [city |-> data[w].req, provider |-> r, requests |-> n])
    /\ UNCHANGED <<api_key, cities, records, now, found, calls, okCalls>>

\* get_or_create_city: the query; .first() of an unordered query may be any match
QueryCity(w) ==
    /\ resp = NoResp
    /\ pc[w] = "query_city"
    /\ LET m == CitiesNamed(cities, data[w].payload.name) IN
       IF m # {}
       THEN /\ \E i \in m : found' = [found EXCEPT ![w] = cities[i].id]
            /\ pc' = [pc EXCEPT ![w] = "save_weather_record"]
       ELSE /\ pc' = [pc EXCEPT ![w] = "insert_city"]
            /\ UNCHANGED found
    /\ resp' = NoResp
    /\ UNCHANGED <<api_key, cities, records, now, data, calls, okCalls, sent>>

\* get_or_create_city: db.add(new_city); db.commit(); db.refresh(new_city)
InsertCity(w) ==
    /\ resp = NoResp
    /\ pc[w] = "insert_city"
    /\ cities' = Append(cities, CityRow(Len(cities) + 1, data[w].payload.name))
    /\ found' = [found EXCEPT ![w] = Len(cities) + 1]
    /\ pc' = [pc EXCEPT ![w] = "save_weather_record"]
    /\ resp' = NoResp
    /\ UNCHANGED <<api_key, records, now, data, calls, okCalls, sent>>

\* save_weather_record, the return of fetch_and_save_weather and the response
SaveWeatherRecord(w) ==
    /\ resp = NoResp
    /\ pc[w] = "save_weather_record"
    /\ LET s == SaveTry(data[w].payload)
           args == [city |-> data[w].req,
                    provider |-> HttpAnswer(200, TRUE, data[w].payload),
                    requests |-> sent[w]]
       IN
       IF s.ok
       THEN LET row == RecordRow(Len(records) + 1, found[w], s.val, now) IN
            /\ records' = InsertRecord(records, row)
            /\ okCalls' = okCalls + 1
            /\ resp' = Answer(Success("current", row), args)
       ELSE /\ resp' = Answer(Failure("current", s.exc, CurrentClauses), args)
            /\ UNCHANGED <<records, okCalls>>
    /\ pc' = [pc EXCEPT ![w] = "idle"]
    /\ data' = [data EXCEPT ![w] = IdleData]
    /\ found' = [found EXCEPT ![w] = 0]
    /\ sent' = [sent EXCEPT ![w] = 0]
    /\ UNCHANGED <<api_key, cities, now, calls>>

\* the response of the request just served goes out to its client
Deliver ==
    /\ resp # NoResp
    /\ resp' = NoResp
    /\ UNCHANGED <<api_key, cities, records, now, pc, data, found, calls, okCalls, sent>>

\* time passes
Tick ==
    /\ resp = NoResp
    /\ now < MaxTime
    /\ now' = now + 1
    /\ resp' = NoResp
    /\ UNCHANGED <<api_key, cities, records, pc, data, found, calls, okCalls, sent>>

Ingest(w) ==
    \/ \E city \in CurrentCities : GetCurrentWeather(w, city)
    \/ \E r \in ProviderAnswers : FetchWeather(w, r)
    \/ QueryCity(w)
    \/ InsertCity(w)
    \/ SaveWeatherRecord(w)

----------------------------------------------------------------------------
(* The read requests: each is one step that produces a response *)

ReadCities == {Pa, Ro, Digit}
DaysParams == {None, Some(0), Some(1), Some(366)}
WeeksParams == {None, Some(0)}
MonthsParams == {None, Some(25)}
PaRo == Pa \o <<44>> \o Ro                      \* "Pa,Ro"
PaDigit == Pa \o <<44>> \o Digit                \* "Pa,P1"
CompareParams == {PaRo, PaDigit, <<32>>}
Day0 == <<50, 48, 50, 54, 45, 48, 49, 45, 48, 53>>     \* "2026-01-05"
Day1 == <<50, 48, 50, 54, 45, 48, 49, 45, 48, 54>>     \* "2026-01-06"
BadDate == <<50, 48, 50, 54, 45, 49, 51, 45, 48, 49>>  \* "2026-13-01"
DateParams ==
    {<<None, None>>, <<Some(Day0), Some(Day0)>>, <<Some(Day0), None>>,
     <<None, Some(Day0)>>, <<Some(Day1), Some(Day0)>>, <<Some(BadDate), None>>}

\* a handler that creates the city it does not find
ReadsGetOrCreate(r, args) ==
    /\ resp = NoResp
    /\ resp' \in {Answer(x, args) : x \in r}
    /\ cities' = IF \E x \in r : x.exc = "CityNotFoundError"
                 THEN Append(cities, CityRow(Len(cities) + 1, Xx))
                 ELSE cities
    /\ UNCHANGED <<api_key, records, now, pc, data, found, calls, okCalls, sent>>

\* a read request: the handler's response, and nothing else changes
Reads(r, args) ==
    /\ resp = NoResp
    /\ resp' \in {Answer(x, args) : x \in r}
    /\ UNCHANGED <<api_key, cities, records, now, pc, data, found, calls, okCalls, sent>>

GetLatestWeather(Cs) ==
    \E city \in Cs :
        Reads(get_latest_weather(cities, records, city), [city |-> city])

ListCities == Reads(list_cities(cities), <<>>)

GetDailyAverage(Cs, Ds) ==
    \E city \in Cs, days \in Ds :
        Reads(get_daily_average(cities, records, now, city, days),
              [city |-> city, days |-> days])

GetTrend(Cs, Ds) ==
    \E city \in Cs, days \in Ds :
        Reads(get_trend(cities, records, now, city, days),
              [city |-> city, days |-> days])

GetPatterns(Cs) ==
    \E city \in Cs : Reads(get_patterns(cities, records, city), [city |-> city])

GetWeeklyAverage(Cs, Ws) ==
    \E city \in Cs, weeks \in Ws :
        Reads(get_weekly_average(cities, records, now, city, weeks),
              [city |-> city, weeks |-> weeks])

GetMonthlyAverage(Cs, Ms) ==
    \E city \in Cs, months \in Ms :
        Reads(get_monthly_average(cities, records, now, city, months),
              [city |-> city, months |-> months])

CompareCities(Ps) ==
    \E cs \in Ps :
        Reads(compare_cities_endpoint(cities, records, cs), [cities |-> cs])

ExportHistorical(Cs, Dts) ==
    \E city \in Cs, d \in Dts :
        Reads(export_historical(cities, records, city, d[1], d[2]),
              [city |-> city, start_date |-> d[1], end_date |-> d[2]])

Read ==
    \/ GetLatestWeather(ReadCities)
    \/ ListCities
    \/ GetDailyAverage(ReadCities, DaysParams)
    \/ GetTrend(ReadCities, DaysParams)
    \/ GetPatterns(ReadCities)
    \/ GetWeeklyAverage(ReadCities, WeeksParams)
    \/ GetMonthlyAverage(ReadCities, MonthsParams)
    \/ CompareCities(CompareParams)
    \/ ExportHistorical(ReadCities, DateParams)

----------------------------------------------------------------------------
(* Specifications *)

Init ==
    /\ api_key \in BOOLEAN
    /\ cities = <<>>
    /\ records = <<>>
    /\ now = 0
    /\ pc = [w \in Workers |-> "idle"]
    /\ data = [w \in Workers |-> IdleData]
    /\ found = [w \in Workers |-> 0]
    /\ calls = 0
    /\ okCalls = 0
    /\ sent = [w \in Workers |-> 0]
    /\ resp = NoResp

\* requests served one after the other, by worker 1
Next ==
    \/ Ingest(1)
    \/ Read
    \/ Deliver
    \/ Tick

Spec == Init /\ [][Next]_vars

\* GET /weather/current served by concurrent worker threads, each with its
\* own session: the steps of the calls interleave
NextConcurrent ==
    \/ \E w \in Workers : Ingest(w)
    \/ Deliver
    \/ Tick

SpecConcurrent == Init /\ [][NextConcurrent]_vars

\* The analytics engine over an arbitrary log: two cities, and records whose
\* timestamps do not decrease in insertion order
AnalyticsTemps == {0, 500, 1001}

AnalyticsRows ==
    {[city_id |-> 1, temp |-> t, at |-> a] : t \in AnalyticsTemps, a \in 0..MaxTime}
    \cup {[city_id |-> 2, temp |-> 0, at |-> a] : a \in 0..MaxTime}

AnalyticsLogs ==
    {s \in UNION {[1..n -> AnalyticsRows] : n \in 0..MaxRecords} :
        \A i \in 1..Len(s) : \A j \in i..Len(s) : s[i].at <= s[j].at}

InitAnalytics ==
    /\ api_key = TRUE
    /\ cities = <<CityRow(1, Pa), CityRow(2, Ro)>>
    /\ \E s \in AnalyticsLogs :
        /\ records = [i \in 1..Len(s) |->
                         RecordRow(i, s[i].city_id, Observation(Pa, s[i].temp), s[i].at)]
        /\ now = IF s = <<>> THEN 0 ELSE s[Len(s)].at
    /\ pc = [w \in Workers |-> "idle"]
    /\ data = [w \in Workers |-> IdleData]
    /\ found = [w \in Workers |-> 0]
    /\ calls = 0
    /\ okCalls = 0
    /\ sent = [w \in Workers |-> 0]
    /\ resp = NoResp

AnalyticsCities == {Pa, Ro}
AnalyticsDays == {None, Some(1), Some(2)}

NextAnalytics ==
    \/ GetDailyAverage(AnalyticsCities, AnalyticsDays)
    \/ GetTrend(AnalyticsCities, AnalyticsDays)
    \/ Deliver
    \/ Tick

SpecAnalytics == InitAnalytics /\ [][NextAnalytics]_vars

\* GET /analytics/export over an arbitrary log of two cities: the timestamps
\* do not decrease in insertion order, the observations are all alike
ExportRows == {[city_id |-> c, at |-> a] : c \in {1, 2}, a \in 0..MaxTime}

ExportLogs ==
    {s \in UNION {[1..n -> ExportRows] : n \in 0..MaxRecords} :
        \A i \in 1..Len(s) : \A j \in i..Len(s) : s[i].at <= s[j].at}

InitExport ==
    /\ api_key = TRUE
    /\ cities = <<CityRow(1, Pa), CityRow(2, Ro)>>
    /\ \E s \in ExportLogs :
        /\ records = [i \in 1..Len(s) |->
                         RecordRow(i, s[i].city_id, Observation(Pa, 500), s[i].at)]
        /\ now = IF s = <<>> THEN 0 ELSE s[Len(s)].at
    /\ pc = [w \in Workers |-> "idle"]
    /\ data = [w \in Workers |-> IdleData]
    /\ found = [w \in Workers |-> 0]
    /\ calls = 0
    /\ okCalls = 0
    /\ sent = [w \in Workers |-> 0]
    /\ resp = NoResp

ExportDates == {None, Some(Day0), Some(Day1)}

NextExport ==
    \/ ExportHistorical(AnalyticsCities, ExportDates \X ExportDates)
    \/ Deliver

SpecExport == InitExport /\ [][NextExport]_vars

\* The statistics of patterns and compare over an arbitrary log: observations
\* with zero or empty fields among them
StatsPayloads ==
    {Payload(Pa, TRUE, TRUE, TRUE, <<"Clear">>, 500, 40, 1000),
     Payload(Pa, TRUE, TRUE, TRUE, <<"Rain">>, 500, 60, 1000),
     Payload(Pa, TRUE, TRUE, TRUE, <<"">>, 0, 0, 0),
     Payload(Pa, TRUE, TRUE, TRUE, <<"Clear">>, 0, 40, 0),
     Payload(Pa, TRUE, TRUE, TRUE, <<"Rain">>, 1001, 0, 1010)}

StatsRows ==
    {[city_id |-> 1, payload |-> p, at |-> a] : p \in StatsPayloads, a \in 0..DayLen}
    \cup {[city_id |-> 2, payload |-> Observation(Ro, 500), at |-> a] : a \in 0..DayLen}

StatsLogs ==
    {s \in UNION {[1..n -> StatsRows] : n \in 0..MaxRecords} :
        \A i \in 1..Len(s) : \A j \in i..Len(s) : s[i].at <= s[j].at}

InitStats ==
    /\ api_key = TRUE
    /\ cities = <<CityRow(1, Pa), CityRow(2, Ro)>>
    /\ \E s \in StatsLogs :
        /\ records = [i \in 1..Len(s) |-> RecordRow(i, s[i].city_id, s[i].payload, s[i].at)]
        /\ now = IF s = <<>> THEN 0 ELSE s[Len(s)].at
    /\ pc = [w \in Workers |-> "idle"]
    /\ data = [w \in Workers |-> IdleData]
    /\ found = [w \in Workers |-> 0]
    /\ calls = 0
    /\ okCalls = 0
    /\ sent = [w \in Workers |-> 0]
    /\ resp = NoResp

PaRoXx == Pa \o <<44>> \o Ro \o <<44>> \o Xx        \* "Pa,Ro,Xx"
StatsCompareParams == {PaRoXx, Ro}

NextStats ==
    \/ GetPatterns(AnalyticsCities)
    \/ CompareCities(StatsCompareParams)
    \/ Deliver

SpecStats == InitStats /\ [][NextStats]_vars

\* The validators of utils/validation.py applied to drawn inputs: a call is one
\* step whose outcome (the value returned or the exception raised) is in resp
Returned(op, args, v) ==
    [op |-> op, args |-> args, status |-> 0, exc |-> v.exc,
     body |-> IF v.ok THEN <<v.val>> ELSE <<>>]

Validate(op, args, v) ==
    /\ resp = NoResp
    /\ resp' = Returned(op, args, v)
    /\ UNCHANGED <<api_key, cities, records, now, pc, data, found, calls, okCalls, sent>>

CountInputs(max) == {None} \cup {Some(n) : n \in (0 - 1)..(max + 2)}

ValidateDays ==
    \E d \in CountInputs(DaysMax) :
        Validate("validate_days", [days |-> d], validate_days(d, DaysMin, DaysMax))

ValidateWeeks ==
    \E w \in CountInputs(WeeksMax) :
        Validate("validate_weeks", [weeks |-> w], validate_weeks(w, WeeksMin, WeeksMax))

ValidateMonths ==
    \E m \in CountInputs(MonthsMax) :
        Validate("validate_months", [months |-> m],
                 validate_months(m, MonthsMin, MonthsMax))

\* names: every string of up to MaxNameInput characters over a letter of each
\* case, a space, a tab, a hyphen, an apostrophe, a digit and e-acute;
\* and runs of 99 to 101 letters, bare and padded with spaces
MaxNameInput == 3
NameChars == {97, 90, 32, 9, 45, 39, 49, 233}
LongNames ==
    UNION {{[i \in 1..n |-> 97], <<32>> \o [i \in 1..n |-> 97] \o <<32, 9>>} : n \in 99..101}
NameInputs == UNION {[1..n -> NameChars] : n \in 0..MaxNameInput} \cup LongNames

ValidateCityName ==
    \E s \in NameInputs :
        Validate("validate_city_name", [city |-> s], validate_city_name(s))

NextValidate ==
    \/ ValidateDays
    \/ ValidateWeeks
    \/ ValidateMonths
    \/ ValidateCityName
    \/ Deliver

SpecValidate == Init /\ [][NextValidate]_vars

----------------------------------------------------------------------------
(* Properties *)

AllIdle == \A w \in Workers : pc[w] = "idle"

CityOps == {"current", "latest", "daily-average", "trend", "patterns",
            "weekly-average", "monthly-average", "export"}
ReadOps == {"latest", "cities", "daily-average", "trend", "patterns",
            "weekly-average", "monthly-average", "compare", "export"}

\* a validator of utils/validation.py, applied to the parameter of the request
\* that r answers, refuses it
RejectedParam(r) ==
    \/ /\ r.op \in CityOps
       /\ ~validate_city_name(r.args.city).ok
    \/ /\ r.op \in {"daily-average", "trend"}
       /\ ~validate_days(r.args.days, DaysMin, DaysMax).ok
    \/ /\ r.op = "weekly-average"
       /\ ~validate_weeks(Some(OrDefault(r.args.weeks, DefaultWeeks)), WeeksMin, WeeksMax).ok
    \/ /\ r.op = "monthly-average"
       /\ ~validate_months(Some(OrDefault(r.args.months, DefaultMonths)), MonthsMin, MonthsMax).ok
    \/ /\ r.op = "export"
       /\ \/ ~IsNone(r.args.start_date) /\ ~validate_date_format(Val(r.args.start_date)).ok
          \/ ~IsNone(r.args.end_date) /\ ~validate_date_format(Val(r.args.end_date)).ok
    \/ /\ r.op = "compare"
       /\ \E i \in 1..Len(CityNames(r.args.cities)) :
              ~validate_city_name(CityNames(r.args.cities)[i]).ok

\* C1: a request whose city name, days/weeks/months count or date string is
\* rejected by its validator is answered with HTTP 400, never with 500,
\* whatever the tables hold.
C1_RejectedParamIs400 ==
    (resp.op # "none" /\ RejectedParam(resp)) => resp.status = 400

\* C2: with the ingestion calls served one after the other, no two City rows
\* have the same name, and the row get_or_create_city hands to
\* save_weather_record is a row of the payload's name.
C2_NoDuplicateCityName ==
    /\ \A i, j \in 1..Len(cities) : cities[i].name = cities[j].name => i = j
    /\ \A w \in Workers :
        pc[w] = "save_weather_record" =>
            \E i \in 1..Len(cities) :
                cities[i].id = found[w] /\ cities[i].name = data[w].payload.name

\* a second successful call for a name already stored reused its City row
C2_Witness ==
    /\ Len(records) = 2
    /\ Len(cities) = 1
    /\ records[1].city_id = records[2].city_id

\* C3: whatever the interleaving of concurrent calls that resolve to the same
\* new name, once they have all returned a record the table has exactly one City
\* row of that name and every record they created references it.
C3_RaceSafeGetOrCreate ==
    (AllIdle /\ okCalls = calls) =>
        \A n \in IngestNames :
            /\ Cardinality(CitiesNamed(cities, n)) <= 1
            /\ \A i \in CitiesNamed(cities, n) :
                \A k \in 1..Len(records) :
                    (\E j \in CitiesNamed(cities, n) : records[k].city_id = cities[j].id)
                        => records[k].city_id = cities[i].id

\* C4: the record table is an append-only log: a step never changes or removes
\* an existing record, a call that returns adds exactly one record, a call that
\* fails adds none, so the records are as many as the calls that returned.
C4_AppendOnlyLog ==
    [][/\ Len(records') >= Len(records)
       /\ SubSeq(records', 1, Len(records)) = records
       /\ Len(records') - Len(records) = okCalls' - okCalls
       /\ okCalls' - okCalls \in {0, 1}
       /\ (resp = NoResp /\ resp'.op = "current" /\ validate_city_name(resp'.args.city).ok)
            => (resp'.status = 200 <=> okCalls' = okCalls + 1)
       /\ Len(records') = okCalls']_vars

\* a call failed after an earlier one had succeeded: the log kept its record
C4_Witness ==
    /\ resp.op = "current"
    /\ resp.status = 503
    /\ okCalls = 1
    /\ Len(records) = 1

\* C5: a call of fetch_and_save_weather that fails leaves the City rows as they
\* were, so that between calls every City row has at least one record.
C5_NoCityWithoutRecord ==
    AllIdle =>
        \A i \in 1..Len(cities) :
            \E k \in 1..Len(records) : records[k].city_id = cities[i].id

\* what the provider did, for a call that got past validate_city_name
ProviderFailed(key, r) ==
    \/ ~key
    \/ r.kind \in {"timeout", "connection"}
    \/ r.status >= 400
    \/ ~r.json
    \/ ~r.body.has_main
    \/ ~r.body.has_weather
    \/ r.body.name = <<>>
    \/ ~r.body.has_coord
    \/ r.body.weather = <<>>

C10_ReadsLeaveTablesUnchanged ==
    [][/\ resp'.op \in ReadOps => (cities' = cities /\ records' = records)
       /\ (cities' # cities \/ records' # records) =>
            \E w \in Workers :
                /\ pc[w] \in {"insert_city", "save_weather_record"}
                /\ pc'[w] # pc[w]]_vars

\* a read request failed with 404 over tables that hold a city and a record
C10_Witness ==
    /\ resp.op \in ReadOps
    /\ resp.status = 404
    /\ Len(cities) > 0
    /\ Len(records) > 0

\* the id of the City row a read handler finds for the name the client sent
CityIdOf(city) ==
    cities[CHOOSE i \in CitiesNamed(cities, Strip(city)) : TRUE].id

\* the position of record i among the records S (indices into the table) in
\* ascending time order, records of one timestamp in insertion order
Rank(S, i) ==
    1 + Cardinality({j \in S : \/ records[j].recorded_at < records[i].recorded_at
                               \/ /\ records[j].recorded_at = records[i].recorded_at
                                  /\ j < i})

Nth(S, k) == CHOOSE i \in S : Rank(S, i) = k

RECURSIVE TempSum(_)
TempSum(S) ==
    IF S = {} THEN 0
    ELSE LET i == CHOOSE x \in S : TRUE IN records[i].temperature + TempSum(S \ {i})

\* v hundredths of a degree is num/den thousandths rounded to two decimals
IsRounded(v, num, den) ==
    /\ 2 * (v * 10 * den - num) <= 10 * den
    /\ 2 * (num - v * 10 * den) <= 10 * den

\* the records of city c in the trend window [now - d days, now]
TrendIdx(c, d) ==
    {i \in 1..Len(records) :
        /\ records[i].city_id = c
        /\ records[i].recorded_at >= now - d * DayLen
        /\ records[i].recorded_at <= now}

\* C7: over the n >= 1 in-window records in ascending time order, the trend splits
\* at floor(n/2), takes change = mean(second half) - mean(first half) with the
\* mean of an empty half 0, and answers increasing if change > 0.5, decreasing if
\* change < -0.5, stable otherwise; record_count = n and daily_data lists the n
\* records in ascending time order.
C7_TrendSplitAndThresholds ==
    (resp.op = "trend" /\ resp.status = 200) =>
        LET S == TrendIdx(CityIdOf(resp.args.city),
                          OrDefault(resp.args.days, DefaultTrendDays))
            n == Cardinality(S)
            A == {i \in S : Rank(S, i) <= n \div 2}
            B == S \ A
            n1 == Cardinality(A)
            n2 == Cardinality(B)
            num == IF n1 = 0 THEN TempSum(B) ELSE TempSum(B) * n1 - TempSum(A) * n2
            den == IF n1 = 0 THEN n2 ELSE n1 * n2
            t == resp.body.trend
        IN /\ n >= 1
           /\ t.record_count = n
           /\ Len(t.daily_data) = n
           /\ \A k \in 1..n :
                /\ t.daily_data[k].temperature = records[Nth(S, k)].temperature
                /\ t.daily_data[k].date = FormatDate(DateOf(records[Nth(S, k)].recorded_at))
           /\ IsRounded(t.temperature_change, num, den)
           /\ n = 1 => IsRounded(t.temperature_change, records[Nth(S, 1)].temperature, 1)
           /\ t.trend_direction =
                IF num > 500 * den THEN "increasing"
                ELSE IF num < (0 - 500) * den THEN "decreasing"
                ELSE "stable"

\* three records, split 1 + 2, whose change is exactly 0.5: stable
C7_Witness ==
    /\ resp.op = "trend"
    /\ resp.status = 200
    /\ resp.body.trend.record_count = 3
    /\ resp.body.trend.temperature_change = 50
    /\ resp.body.trend.trend_direction = "stable"

\* the records of city c in the daily-average window
DailyIdx(c, days) ==
    {i \in 1..Len(records) :
        /\ records[i].city_id = c
        /\ (IsNone(days) \/ records[i].recorded_at >= now - Val(days) * DayLen)}

\* C8: daily average gives one entry per distinct calendar date with a record of
\* the city in the window (all records when days is absent, else recorded_at >=
\* now - days), with that date's mean temperature (two decimals) and count,
\* strictly descending by date; the counts sum to the records in the window and
\* an empty window gives an empty list.
C8_DailyAverageGroups ==
    (resp.op = "daily-average" /\ resp.status = 200) =>
        LET W == DailyIdx(CityIdOf(resp.args.city), resp.args.days)
            dates == {DateOf(records[i].recorded_at) : i \in W}
            On(d) == {i \in W : DateOf(records[i].recorded_at) = d}
            out == resp.body.daily_averages
        IN /\ Len(out) = Cardinality(dates)
           /\ \A d \in dates :
                \E k \in 1..Len(out) :
                    /\ out[k].date = FormatDate(d)
                    /\ out[k].record_count = Cardinality(On(d))
                    /\ IsRounded(out[k].avg_temperature, TempSum(On(d)), Cardinality(On(d)))
           /\ \A k \in 1..(Len(out) - 1) : StrLess(out[k + 1].date, out[k].date)
           /\ Sum([k \in 1..Len(out) |-> out[k].record_count]) = Cardinality(W)
           /\ W = {} => out = <<>>

\* a windowed request answered with two dates, the later one with two records
C8_Witness ==
    /\ resp.op = "daily-average"
    /\ resp.status = 200
    /\ ~IsNone(resp.args.days)
    /\ Len(resp.body.daily_averages) = 2
    /\ resp.body.daily_averages[1].record_count = 2
    /\ resp.body.daily_averages[2].record_count = 1

EngineDays == {None, Some(1), Some(2)}

\* C9: two daily-average calls with the same city_id and days, with no write
\* between them, return the same output however much time passes between them
\* (the first call made in the state before the step, the second after it).
C9_DailyAverageIdempotent ==
    [][(records' = records /\ now' > now) =>
        \A c \in 1..Len(cities) : \A d \in EngineDays :
            get_daily_average_temperature(records', c, d, now')
                = get_daily_average_temperature(records, c, d, now)]_vars

\* no record of city c leaves the window of d days between now and now'
NoneLeavesWindow(c, d) ==
    \A i \in 1..Len(records) :
        ~ /\ records[i].city_id = c
          /\ records[i].recorded_at >= now - d * DayLen
          /\ records[i].recorded_at < now' - d * DayLen

\* C9 amended: the same, provided days is absent or no record of the city leaves
\* the window [now - days, ..) between the two calls.
C9_IdempotentWhileWindowHolds ==
    [][(records' = records /\ now' > now) =>
        \A c \in 1..Len(cities) : \A d \in EngineDays :
            (IsNone(d) \/ NoneLeavesWindow(c, Val(d))) =>
                get_daily_average_temperature(records', c, d, now')
                    = get_daily_average_temperature(records, c, d, now)]_vars

\* an unwindowed request answered, after time has passed, with a record that a
\* window of one day would no longer hold
C9_Witness ==
    /\ resp.op = "daily-average"
    /\ resp.status = 200
    /\ IsNone(resp.args.days)
    /\ resp.body.daily_averages # <<>>
    /\ \E i \in 1..Len(records) :
        /\ records[i].city_id = CityIdOf(resp.args.city)
        /\ records[i].recorded_at < now - DayLen

\* the records of city c, as indices into the table
CityIdx(c) == {i \in 1..Len(records) : records[i].city_id = c}

\* the records of city c whose recorded_at lies in [s, e], an absent bound open
RangeIdx(c, s, e) ==
    {i \in CityIdx(c) :
        /\ (IsNone(s) \/ records[i].recorded_at >= Val(s))
        /\ (IsNone(e) \/ records[i].recorded_at <= Val(e))}

\* the request that r answers passed the handler's validation
PassedValidation(r) ==
    /\ ~RejectedParam(r)
    /\ r.op = "export" =>
         LET s == DateParam(r.args.start_date).val
             e == DateParam(r.args.end_date).val
         IN ~(~IsNone(s) /\ ~IsNone(e) /\ Val(s) > Val(e))

\* the records the request that r answers asks for, city c being the one found
AskedIdx(r, c) ==
    IF r.op = "trend" THEN TrendIdx(c, OrDefault(r.args.days, DefaultTrendDays))
    ELSE IF r.op = "export"
    THEN RangeIdx(c, DateParam(r.args.start_date).val, DateParam(r.args.end_date).val)
    ELSE CityIdx(c)

NotFoundOps == {"trend", "patterns", "export", "latest"}

\* C11: trend, patterns, export and /weather/latest answer a well-formed request
\* with CityNotFoundError (404) when no City has the name, with
\* WeatherDataNotFoundError (404) when the city has no record in the window asked
\* for, and with neither otherwise; the engine functions, applied to the tables
\* as they are between two requests, return their empty sentinel (None or an
\* empty list) exactly when the window is empty.
C11_NotFoundKinds ==
    /\ (resp.op \in NotFoundOps /\ PassedValidation(resp)) =>
        LET m == CitiesNamed(cities, Strip(resp.args.city)) IN
        IF m = {} THEN resp.exc = "CityNotFoundError" /\ resp.status = 404
        ELSE IF AskedIdx(resp, CityIdOf(resp.args.city)) = {}
        THEN resp.exc = "WeatherDataNotFoundError" /\ resp.status = 404
        ELSE resp.exc \notin {"CityNotFoundError", "WeatherDataNotFoundError"}
    /\ resp = NoResp => \A k \in 1..Len(cities) :
        LET c == cities[k].id IN
        /\ \A d \in {1, DefaultTrendDays} :
            IsNone(get_weather_trend(records, c, d, now)) <=> TrendIdx(c, d) = {}
        /\ IsNone(get_humidity_pressure_patterns(records, c)) <=> CityIdx(c) = {}
        /\ \A s, e \in {None, Some(0)} :
            export_historical_data(records, c, s, e) = <<>> <=> RangeIdx(c, s, e) = {}

\* the city has a record, but none in the last day: no data for the trend
C11_Witness ==
    /\ resp.op = "trend"
    /\ resp.exc = "WeatherDataNotFoundError"
    /\ resp.status = 404
    /\ CityIdx(CityIdOf(resp.args.city)) # {}

\* the record of the table with the given id
RecordOfId(id) == records[CHOOSE i \in 1..Len(records) : records[i].id = id]

\* out lists exactly the records S, each once, by ascending recorded_at
ExportIs(out, S) ==
    /\ Len(out) = Cardinality(S)
    /\ {out[k].id : k \in 1..Len(out)} = {records[i].id : i \in S}
    /\ \A k \in 1..Len(out) :
        /\ out[k].recorded_at = FormatDateTime(RecordOfId(out[k].id).recorded_at)
        /\ out[k].temperature = RecordOfId(out[k].id).temperature
    /\ \A k \in 1..(Len(out) - 1) :
        /\ RecordOfId(out[k].id).recorded_at <= RecordOfId(out[k + 1].id).recorded_at
        /\ ~StrLess(out[k + 1].recorded_at, out[k].recorded_at)

ExportBounds == {None} \cup {Some(t) : t \in 0..MaxTime}

\* C12: export_historical_data returns every record of the city whose
\* recorded_at lies in [start, end], both bounds inclusive and an absent bound
\* open, no other record, each exactly once, in ascending recorded_at order.
C12_ExportRange ==
    /\ \A k \in 1..Len(cities) : \A s, e \in ExportBounds :
        ExportIs(export_historical_data(records, cities[k].id, s, e),
                 RangeIdx(cities[k].id, s, e))
    /\ (resp.op = "export" /\ resp.status = 200) =>
        ExportIs(resp.body.records, AskedIdx(resp, CityIdOf(resp.args.city)))

\* an export between two dates that returns two of the city's three records
C12_Witness ==
    /\ resp.op = "export"
    /\ resp.status = 200
    /\ ~IsNone(resp.args.start_date)
    /\ ~IsNone(resp.args.end_date)
    /\ Len(resp.body.records) = 2
    /\ Cardinality(CityIdx(CityIdOf(resp.args.city))) = 3

\* the records of city c recorded on the calendar date written as the string D
OnDate(c, D) == {i \in CityIdx(c) : FormatDate(DateOf(records[i].recorded_at)) = D}

\* C13: an export with start_date = end_date = the calendar date D of a stored
\* record of the city returns that record, at whatever time of day it was
\* recorded, and exactly that record when it is the city's only one on D.
C13_ExportSingleDate ==
    (/\ resp.op = "export"
     /\ ~IsNone(resp.args.start_date)
     /\ resp.args.start_date = resp.args.end_date
     /\ CitiesNamed(cities, Strip(resp.args.city)) # {}
     /\ OnDate(CityIdOf(resp.args.city), Val(resp.args.start_date)) # {}) =>
        LET S == OnDate(CityIdOf(resp.args.city), Val(resp.args.start_date)) IN
        /\ resp.status = 200
        /\ \A i \in S : \E k \in 1..Len(resp.body.records) :
               resp.body.records[k].id = records[i].id
        /\ Cardinality(S) = 1 => Len(resp.body.records) = 1

\* the names the compare request that r answers asks for
AskedNames(r) == {CityNames(r.args.cities)[i] : i \in 1..Len(CityNames(r.args.cities))}

\* the asked names that a stored City with at least one record has
Resolvable(r) ==
    {n \in AskedNames(r) :
        \E i \in 1..Len(cities) : cities[i].name = n /\ CityIdx(cities[i].id) # {}}

\* C14: compare_cities returns a map whose keys are exactly the requested names
\* of a stored City with at least one record (other names give no key and no
\* error), each key's total_records being the number of that city's records.
C14_CompareKeys ==
    (resp.op = "compare" /\ ~RejectedParam(resp) /\ AskedNames(resp) # {}) =>
        IF Resolvable(resp) = {}
        THEN resp.exc = "CityNotFoundError"
        ELSE /\ resp.status = 200
             /\ DOMAIN resp.body = Resolvable(resp)
             /\ \A n \in Resolvable(resp) :
                    resp.body[n].total_records = Cardinality(CityIdx(CityIdOf(n)))

\* two resolvable names and a nonexistent one give two keys
C14_Witness ==
    /\ resp.op = "compare"
    /\ resp.status = 200
    /\ resp.args.cities = PaRoXx
    /\ DOMAIN resp.body = {Pa, Ro}
    /\ resp.body[Pa].total_records = 2

\* the greatest recorded_at of the records of city c
LatestAt(c) ==
    CHOOSE t \in {records[i].recorded_at : i \in CityIdx(c)} :
        \A i \in CityIdx(c) : records[i].recorded_at <= t

\* C15: in the compare_cities result the latest_record of every city is the
\* greatest recorded_at of its records, whatever order the storage returns the
\* records in.
C15_LatestIsMax ==
    (resp.op = "compare" /\ resp.status = 200) =>
        \A n \in DOMAIN resp.body :
            resp.body[n].latest_record = FormatDateTime(LatestAt(CityIdOf(n)))

\* the sum of f[i] over the records i of S, f giving a field of each record
RECURSIVE SumOver(_, _)
SumOver(S, f) ==
    IF S = {} THEN 0
    ELSE LET i == CHOOSE x \in S : TRUE IN f[i] + SumOver(S \ {i}, f)

\* st is the average (two decimals), min and max of f over the records S, or
\* three zeros when S is empty
StatsAre(st, S, f) ==
    IF S = {} THEN st.average = 0 /\ st.min = 0 /\ st.max = 0
    ELSE /\ 2 * (st.average * Cardinality(S) - 100 * SumOver(S, f)) <= Cardinality(S)
         /\ 2 * (100 * SumOver(S, f) - st.average * Cardinality(S)) <= Cardinality(S)
         /\ \E i \in S : f[i] = st.min
         /\ \A i \in S : f[i] >= st.min
         /\ \E i \in S : f[i] = st.max
         /\ \A i \in S : f[i] <= st.max

HumidityOf == [i \in 1..Len(records) |-> records[i].humidity]
PressureOf == [i \in 1..Len(records) |-> records[i].pressure]

\* p is what C16 says of the records of city c
PatternsAre(p, c) ==
    LET S == CityIdx(c)
        L == {i \in S : records[i].weather_main # ""}
    IN /\ StatsAre(p.humidity, {i \in S : records[i].humidity # 0}, HumidityOf)
       /\ StatsAre(p.pressure, {i \in S : records[i].pressure # 0}, PressureOf)
       /\ DOMAIN p.weather_conditions = {records[i].weather_main : i \in L}
       /\ \A l \in DOMAIN p.weather_conditions :
            p.weather_conditions[l] = Cardinality({i \in L : records[i].weather_main = l})
       /\ p.total_records = Cardinality(S)

\* C16: get_humidity_pressure_patterns, over all records of the city, gives
\* humidity and pressure average/min/max over the records whose value is not
\* null/zero (0 each when there is none), the count of each distinct non-empty
\* weather_main, total_records = the number of all records, and the absence
\* sentinel exactly when the city has no record.
C16_Patterns ==
    /\ \A k \in 1..Len(cities) :
        LET p == get_humidity_pressure_patterns(records, cities[k].id) IN
        /\ IsNone(p) <=> CityIdx(cities[k].id) = {}
        /\ ~IsNone(p) => PatternsAre(Val(p), cities[k].id)
    /\ (resp.op = "patterns" /\ resp.status = 200) =>
        PatternsAre(resp.body.patterns, CityIdOf(resp.args.city))

\* humidities 40 and 60 and one record without humidity: average 50.00
C16_Witness ==
    /\ resp.op = "patterns"
    /\ resp.status = 200
    /\ resp.body.patterns.total_records = 3
    /\ resp.body.patterns.humidity = [average |-> 5000, min |-> 40, max |-> 60]
    /\ DOMAIN resp.body.patterns.weather_conditions = {"Clear", "Rain"}

\* what the validator call that resp describes returned
Accepted(r) == r.exc = "none"

\* the count validator accepts exactly the integers lo..hi
CountRule(r, n, lo, hi) ==
    Accepted(r) <=> (~IsNone(n) /\ Val(n) >= lo /\ Val(n) <= hi)

\* C17: validate_days, validate_weeks and validate_months accept exactly the
\* integers of [1,365], [1,52] and [1,24] and return the accepted value
\* unchanged; 0 and max+1 fail; validate_days alone accepts an absent value,
\* which it returns as absent.
C17_CountValidators ==
    /\ resp.op = "validate_days" =>
        IF IsNone(resp.args.days) THEN Accepted(resp) /\ resp.body = <<None>>
        ELSE /\ CountRule(resp, resp.args.days, 1, 365)
             /\ Accepted(resp) => resp.body = <<resp.args.days>>
    /\ resp.op = "validate_weeks" =>
        /\ CountRule(resp, resp.args.weeks, 1, 52)
        /\ Accepted(resp) => resp.body = <<Val(resp.args.weeks)>>
    /\ resp.op = "validate_months" =>
        /\ CountRule(resp, resp.args.months, 1, 24)
        /\ Accepted(resp) => resp.body = <<Val(resp.args.months)>>

\* the greatest day count is accepted and returned as it came
C17_Witness ==
    /\ resp.op = "validate_days"
    /\ resp.args.days = Some(365)
    /\ Accepted(resp)
    /\ resp.body = <<Some(365)>>

\* s without its leading and trailing whitespace
Trimmed(s) ==
    LET I == {i \in 1..Len(s) : ~IsSpace(s[i])} IN
    IF I = {} THEN <<>>
    ELSE SubSeq(s, CHOOSE i \in I : \A j \in I : i <= j,
                   CHOOSE i \in I : \A j \in I : j <= i)

\* a character C18 allows: an ASCII letter, whitespace, a hyphen, an apostrophe
AllowedChar(c) ==
    \/ c \in 65..90
    \/ c \in 97..122
    \/ IsSpace(c)
    \/ c = 45
    \/ c = 39

\* C18: validate_city_name succeeds exactly when the trimmed input has 2 to 100
\* characters, all of them ASCII letters, whitespace, hyphens or apostrophes; it
\* then returns the trimmed string, and validating that again returns it
\* unchanged.
C18_CityNameRule ==
    resp.op = "validate_city_name" =>
        LET t == Trimmed(resp.args.city) IN
        /\ Accepted(resp) <=>
            /\ Len(t) >= 2
            /\ Len(t) <= 100
            /\ \A i \in 1..Len(t) : AllowedChar(t[i])
        /\ Accepted(resp) =>
            /\ resp.body = <<t>>
            /\ validate_city_name(resp.body[1]) = Ok(resp.body[1])

\* a padded name of exactly 100 letters is accepted and returned trimmed
C18_Witness ==
    /\ resp.op = "validate_city_name"
    /\ Len(resp.args.city) = 103
    /\ Accepted(resp)
    /\ Len(resp.body[1]) = 100

\* the provider request failed: no answer, or an error status
ProviderError(r) ==
    \/ r.kind \in {"timeout", "connection"}
    \/ r.status >= 400

\* a payload that passed the checks of fetch_weather_from_api and of the
\* extraction in fetch_and_save_weather
ValidPayload(p) == p.has_main /\ p.has_weather /\ p.name # <<>> /\ p.has_coord

\* C19: a fetch_and_save_weather call issues at most one provider request and
\* never retries: after a timeout, a connection failure or an error status it
\* ends with an error having issued that one request; and nothing is written to
\* the tables before the request of the call has returned a valid payload.
C19_OneRequestNoRetry ==
    /\ [](/\ \A w \in Workers : sent[w] <= 1
          /\ (resp.op = "current" /\ validate_city_name(resp.args.city).ok) =>
                /\ resp.args.requests <= 1
                /\ (api_key /\ ProviderError(resp.args.provider)) =>
                      /\ resp.args.requests = 1
                      /\ resp.exc \in {"ValidationError", "ExternalAPIError"}
                      /\ resp.status \in {400, 503})
    /\ [][store' # store =>
            \E w \in Workers :
                /\ pc[w] \in {"insert_city", "save_weather_record"}
                /\ pc'[w] # pc[w]
                /\ sent[w] = 1
                /\ ValidPayload(data[w].payload)]_vars

\* the request timed out: the call ended with 503 after that one request
C19_Witness ==
    /\ resp.op = "current"
    /\ validate_city_name(resp.args.city).ok
    /\ api_key
    /\ resp.args.provider.kind = "timeout"
    /\ resp.args.requests = 1
    /\ resp.status = 503

\* C20: after GET /weather/current?city=X succeeded, the next read for the same
\* name X finds the city and the record the call created: /weather/latest
\* returns that record and the analytics endpoints answer for the city, whatever
\* display name the provider gave the city.
C20_ReadYourWrite ==
    (resp.op = "current" /\ resp.status = 200) =>
        /\ \A x \in get_latest_weather(cities, records, resp.args.city) :
            x.status = 200 /\ x.body = resp.body
        /\ \A x \in get_patterns(cities, records, resp.args.city) : x.status = 200

\* ---- C21 ----

\* the threshold 0.5 in hundredths of a degree, the unit of the returned change
ReturnedThreshold == TrendThreshold \div 10

\* C21: the trend_direction of a trend result agrees with the temperature_change
\* returned in the same result: increasing exactly when the returned two-decimal
\* change is > 0.5, decreasing exactly when it is < -0.5, stable otherwise.
C21_DirectionAgreesWithChange ==
    (resp.op = "trend" /\ resp.status = 200) =>
        LET t == resp.body.trend
        IN /\ t.trend_direction = "increasing" <=> t.temperature_change > ReturnedThreshold
           /\ t.trend_direction = "decreasing" <=>
                t.temperature_change < 0 - ReturnedThreshold
           /\ t.trend_direction = "stable" <=>
                /\ t.temperature_change <= ReturnedThreshold
                /\ t.temperature_change >= 0 - ReturnedThreshold

\* ---- C22 ----

\* C22: /analytics/daily-average applies the [1,365] bound to every days value
\* the caller supplies: a supplied value outside the bound, 0 included, is
\* refused with the validator's error and never answered with averages; only
\* an absent days means all days.
C22_DaysBoundOnEverySuppliedValue ==
    (/\ resp.op = "daily-average"
     /\ ~IsNone(resp.args.days)
     /\ Val(resp.args.days) \notin DaysMin..DaysMax) =>
        /\ resp.status # 200
        /\ validate_city_name(resp.args.city).ok =>
               resp.exc = validate_days(resp.args.days, DaysMin, DaysMax).exc

\* ---- C23 ----

\* C23: in the compare_cities result each city's temperature average, min and
\* max (two decimals) are taken over all of the city's records, the set that
\* total_records counts; a record of temperature exactly 0 takes part in them.
C23_TemperatureOverAllRecords ==
    (resp.op = "compare" /\ resp.status = 200) =>
        \A n \in DOMAIN resp.body :
            LET S == CityIdx(CityIdOf(n))
                st == resp.body[n].temperature
            IN /\ resp.body[n].total_records = Cardinality(S)
               /\ S # {}
               /\ IsRounded(st.average, TempSum(S), Cardinality(S))
               /\ \E i \in S :
                    /\ \A j \in S : records[i].temperature <= records[j].temperature
                    /\ IsRounded(st.min, records[i].temperature, 1)
               /\ \E i \in S :
                    /\ \A j \in S : records[i].temperature >= records[j].temperature
                    /\ IsRounded(st.max, records[i].temperature, 1)

====
